---- MODULE Spec2Model ----
(***************************************************************************)
(* Model of the unesco_reader UIS pipeline.                                *)
(*                                                                         *)
(*   src/src/unesco_reader/uis.py  - fetch_info / fetch_data memoised with *)
(*       functools.lru_cache, and the UIS facade bound to their results.   *)
(*   src/unesco_reader/uis.py      - the earlier UIS facade (load_data /   *)
(*       get_data), format_metadata and transform_data.                    *)
(*                                                                         *)
(* Objects created by a retrieval (a UISData, a scraped catalogue) are     *)
(* identified by the number of the retrieval that created them; 0 stands   *)
(* for "no object".  Source locations (href) are numbered from 1.          *)
(*                                                                         *)
(* lru_cache keys a call on its arguments as written, so a call is a       *)
(* record of its form (which arguments are written, and whether by         *)
(* position or by keyword) and of the values the parameters are bound to.  *)
(***************************************************************************)
EXTENDS Integers, Sequences, FiniteSets, TLC

VARIABLES
    CACHING,      \* module flag CACHING (uis.py:16)
    data_cache,   \* lru_cache of fetch_data: entries oldest first
    info_cache,   \* lru_cache of fetch_info: entries oldest first
    fetches,      \* number of get_zipfile invocations so far
    scrapes,      \* number of UISInfoScraper.get_links invocations so far
    facade,       \* the UIS objects: facade[f]._dataset_info, facade[f]._data
    op,           \* the operation performed by the latest step, and its outcome
    last,         \* the latest fetch_data call: arguments, hit/miss, result, and
                  \* how it relates to the fetch_data call before it
    bound,        \* bound[f]: the object f's own latest __init__ / refresh()
                  \* received from fetch_data
    remote,       \* the member tables of the archive published at the url
    uis,          \* the earlier facade: made, __dataset_code, __folder, __data
    unzips,       \* number of common.unzip_folder invocations so far
    metadata,     \* local `metadata` of the latest transform_data call
    returned      \* value returned by the latest transform_data call

vars == <<CACHING, data_cache, info_cache, fetches, scrapes, facade, op,
          last, bound, remote, uis, unzips, metadata, returned>>

cacheVars  == <<CACHING, data_cache, info_cache, fetches, scrapes, facade, last,
                bound>>
legacyVars == <<remote, uis, unzips, metadata, returned>>

(***************************************************************************)
(* Bounds of the model.                                                    *)
(***************************************************************************)
MaxFetch  == 3     \* get_zipfile invocations explored by Spec and SpecFacade
MaxScrape == 2     \* get_links invocations explored by Spec and SpecFacade
NumLocs   == 130   \* get_zipfile invocations explored by SpecLRU
MaxMeta   == 3     \* rows of the METADATA member explored by SpecReshape
MaxValues == 2     \* rows of the DATA_NATIONAL member explored by SpecReshape
MaxSample == 1     \* rows of either member explored by SpecLegacy
MaxUnzip  == 2     \* unzip_folder invocations explored by SpecLegacy

(***************************************************************************)
(* Program constants.                                                      *)
(***************************************************************************)
None    == 0       \* Python None / no object
MaxSize == 128     \* functools.lru_cache default maxsize (bare @lru_cache)

Names   == {"a", "b"}          \* dataset names listed by the UIS website
Facades == {"A", "B"}          \* UIS objects held by the caller
Outcomes == {"ok", "raise"}    \* get_zipfile returns or raises
Probes  == {1}                 \* hrefs SpecLRU requests again and again

\* what UISInfoScraper.get_links does: raises, or returns a list of datasets
Links == {[ok |-> FALSE, names |-> {}],
          [ok |-> TRUE, names |-> Names],
          [ok |-> TRUE, names |-> {"a"}]}
\* the same, and a website that lists no dataset
InfoLinks == Links \cup {[ok |-> TRUE, names |-> {}]}

\* href of the dataset called n in the scraped list
Href(n) == IF n = "a" THEN 1 ELSE 2
Hrefs == {Href(n) : n \in Names}

(***************************************************************************)
(* Calls as written                                                        *)
(***************************************************************************)
\* the ways to write a call of fetch_data(href, refresh=False): arguments by
\* position, then arguments by keyword in the order written
DataForms == {"href", "href,refresh", "href,refresh=", "href=",
              "href=,refresh=", "refresh=,href="}
\* the ways to write a call of fetch_info(refresh=False)
InfoForms == {"", "refresh", "refresh="}

\* does the form write the argument refresh?
WritesRefresh(form) == form \notin {"href", "href=", ""}

\* a call: its form and the values its parameters are bound to; a parameter
\* the form does not write is bound to its default (refresh=False)
Call(form, href, refresh) ==
    [form |-> form, href |-> href, refresh |-> WritesRefresh(form) /\ refresh]

DataCalls(forms, hrefs) ==
    {Call(f, h, b) : f \in forms, h \in hrefs, b \in BOOLEAN}
InfoCalls(forms) == {Call(f, None, b) : f \in forms, b \in BOOLEAN}

\* the forms of fetch_data calls Spec explores: href by position, refresh
\* omitted, by position or by keyword
SpecDataForms == {"href", "href,refresh", "href,refresh="}

\* functools._make_key(args, kwds, typed=False): the positional arguments,
\* then a mark and the keyword items in the order written.  Two calls have
\* the same key exactly when they are written in the same form with the
\* same values.
make_key(call) == <<call.form, call.href, call.refresh>>

\* the call whose key is key
KeyCall(key) == [form |-> key[1], href |-> key[2], refresh |-> key[3]]

(***************************************************************************)
(* functools.lru_cache                                                     *)
(***************************************************************************)
\* position of key in the cache, 0 when absent
KeyIndex(cache, key) ==
    IF \E i \in 1..Len(cache) : cache[i].key = key
    THEN CHOOSE i \in 1..Len(cache) : cache[i].key = key
    ELSE 0

\* a hit makes the entry the most recently used one
Touch(cache, i) ==
    Append(SubSeq(cache, 1, i - 1) \o SubSeq(cache, i + 1, Len(cache)), cache[i])

\* mutant: a cache that never evicts
StoreUnbounded(cache, key, val) ==
    Append(cache, [key |-> key, val |-> val])

\* a miss stores the result; a full cache drops its least recently used entry
Store(cache, key, val) ==
    IF Len(cache) >= MaxSize
    THEN Append(Tail(cache), [key |-> key, val |-> val])
    ELSE Append(cache, [key |-> key, val |-> val])

\* cache_clear()
cache_clear == << >>

\* The wrapper lru_cache puts around a function whose body is
\*     if clear: f.cache_clear()
\*     return retrieve()           (outcome: returns newval, or raises)
\* A hit returns the stored value and never runs the body.
lru_cache(cache, key, clear, outcome, newval, none) ==
    LET i == KeyIndex(cache, key) IN
    IF i # 0
    THEN [cache |-> Touch(cache, i), hit |-> TRUE, ok |-> TRUE,
          result |-> cache[i].val]
    ELSE LET c1 == IF clear THEN cache_clear ELSE cache IN
         IF outcome = "raise"
         THEN [cache |-> c1, hit |-> FALSE, ok |-> FALSE, result |-> none]
         ELSE [cache |-> Store(c1, key, newval), hit |-> FALSE, ok |-> TRUE,
               result |-> newval]

(***************************************************************************)
(* fetch_info, fetch_dataset_info, fetch_data                              *)
(***************************************************************************)
NoCatalog == [id |-> None, names |-> {}]
NoDesc    == [name |-> "", href |-> None, cat |-> None]

\* mutant: refresh=True does not clear the cache
fetch_data_noclear(cache, caching, call, outcome, newobj) ==
    lru_cache(cache, make_key(call), ~caching, outcome, newobj, None)

\* mutant: every call runs the body (no memoisation)
fetch_data_nocache(cache, caching, call, outcome, newobj) ==
    lru_cache(cache_clear, make_key(call), FALSE, outcome, newobj, None)

\* fetch_data called as `call`: the key is the call as written, the body
\* sees the values href and refresh are bound to
fetch_data(cache, caching, call, outcome, newobj) ==
    lru_cache(cache, make_key(call), call.refresh \/ ~caching, outcome, newobj,
              None)

\* fetch_info called as `call`: get_links returns a list or raises
fetch_info(cache, caching, call, links, id) ==
    lru_cache(cache, make_key(call), call.refresh \/ ~caching,
              IF links.ok THEN "ok" ELSE "raise",
              [id |-> id, names |-> links.names], NoCatalog)

\* fetch_dataset_info(dataset_name, refresh): calls fetch_info(refresh), the
\* argument by position; the entry of the list named dataset_name,
\* ValueError when there is none
fetch_dataset_info(cache, caching, name, refresh, links, id) ==
    LET r == fetch_info(cache, caching, Call("refresh", None, refresh), links, id) IN
    IF r.ok /\ name \in r.result.names
    THEN [cache |-> r.cache, hit |-> r.hit, ok |-> TRUE,
          desc |-> [name |-> name, href |-> Href(name), cat |-> r.result.id]]
    ELSE [cache |-> r.cache, hit |-> r.hit, ok |-> FALSE, desc |-> NoDesc]

(***************************************************************************)
(* Records of calls                                                        *)
(***************************************************************************)
\* `after` relates a fetch_data call to the fetch_data call before it:
\*   "get"      that call had the same href and refresh False, and returned
\*   "refresh"  that call had the same href and refresh True, and returned
\*   "other"    anything else (another href, an exception, no call yet)
\* `respelt` says that the two calls were written in different forms.
\* `same` says that both calls returned the identical object.
\* `others` is what the cache held for other hrefs when the call was made.
NoCall == [form |-> "", href |-> None, refresh |-> FALSE, hit |-> FALSE,
           ok |-> FALSE, result |-> None, after |-> "other", respelt |-> FALSE,
           same |-> FALSE, others |-> {}]

\* the entries of the cache whose key names another href than href
Others(cache, href) ==
    {cache[i] : i \in {j \in 1..Len(cache) : KeyCall(cache[j].key).href # href}}

CallRec(call, r) ==
    [form |-> call.form, href |-> call.href, refresh |-> call.refresh,
     hit |-> r.hit, ok |-> r.ok, result |-> r.result,
     after |-> IF last.ok /\ last.href = call.href
               THEN (IF last.refresh THEN "refresh" ELSE "get")
               ELSE "other",
     respelt |-> last.form # call.form,
     same |-> r.ok /\ last.ok /\ r.result = last.result,
     others |-> Others(data_cache, call.href)]

OpRec(name, f, ok, served) ==
    [name |-> name, f |-> f, ok |-> ok, served |-> served]

\* the attributes of a UISData object the accessors test for None
Members == {"metadata", "region_data", "country_concordance",
            "region_concordance", "variable_concordance", "readme"}
\* UISData(folder): the attributes left None because the archive published at
\* href has no such member.  The archives explored keep their set of members:
\* the second dataset has no metadata and no regional members, the others
\* have every member.
ArchiveLacks(href) ==
    IF href = 2 THEN {"metadata", "region_data", "region_concordance"} ELSE {}

NoneData == [none |-> TRUE]
NoFolder == [none |-> TRUE]
NoUIS    == [made |-> FALSE, code |-> "", folder |-> NoFolder, data |-> NoneData]

Init ==
    /\ CACHING = TRUE
    /\ data_cache = << >>
    /\ info_cache = << >>
    /\ fetches = 0
    /\ scrapes = 0
    /\ facade = [f \in Facades |-> [made |-> FALSE, info |-> NoDesc, data |-> None]]
    /\ op = OpRec("start", "-", TRUE, None)
    /\ last = NoCall
    /\ bound = [f \in Facades |-> None]
    /\ remote = NoFolder
    /\ uis = NoUIS
    /\ unzips = 0
    /\ metadata = << >>
    /\ returned = << >>

\* the part of a step that performs one fetch_data call with result r
DataCallEffect(call, r) ==
    /\ data_cache' = r.cache
    /\ fetches' = IF r.hit THEN fetches ELSE fetches + 1
    /\ last' = CallRec(call, r)

\* the part of a step that performs one fetch_info call with result r
InfoCallEffect(r) ==
    /\ info_cache' = r.cache
    /\ scrapes' = IF r.hit THEN scrapes ELSE scrapes + 1

\* CACHING = b
SetCaching(b) ==
    /\ CACHING # b
    /\ CACHING' = b
    /\ op' = OpRec("CACHING", "-", TRUE, None)
    /\ UNCHANGED <<data_cache, info_cache, fetches, scrapes, facade, last, bound,
                   legacyVars>>

\* one direct call of fetch_data, with at most `limit` retrievals explored
FetchDataStep(call, outcome, limit) ==
    LET r == fetch_data(data_cache, CACHING, call, outcome, fetches + 1) IN
    /\ r.hit \/ fetches < limit
    /\ DataCallEffect(call, r)
    /\ op' = OpRec("fetch_data", "-", r.ok, r.result)
    /\ UNCHANGED <<CACHING, info_cache, scrapes, facade, bound, legacyVars>>

\* fetch_data called directly, written as `call`
CallFetchData(call, outcome) ==
    FetchDataStep(call, outcome, MaxFetch)

\* fetch_info called directly, written as `call`
CallFetchInfo(call, links) ==
    LET r == fetch_info(info_cache, CACHING, call, links, scrapes + 1) IN
    /\ r.hit \/ scrapes < MaxScrape
    /\ InfoCallEffect(r)
    /\ op' = OpRec("fetch_info", "-", r.ok, None)
    /\ UNCHANGED <<CACHING, data_cache, fetches, facade, last, bound, legacyVars>>

\* info(refresh): fetch_info(refresh), the argument by position, then
\* printing; _info[0] raises IndexError when the list is empty
CallInfo(refresh, links) ==
    LET r == fetch_info(info_cache, CACHING, Call("refresh", None, refresh), links,
                        scrapes + 1) IN
    /\ r.hit \/ scrapes < MaxScrape
    /\ InfoCallEffect(r)
    /\ op' = OpRec("info", "-", r.ok /\ r.result.names # {}, None)
    /\ UNCHANGED <<CACHING, data_cache, fetches, facade, last, bound, legacyVars>>

\* fetch_dataset_info(dataset_name, refresh) called directly
CallFetchDatasetInfo(name, refresh, links) ==
    LET i == fetch_dataset_info(info_cache, CACHING, name, refresh, links,
                                scrapes + 1) IN
    /\ i.hit \/ scrapes < MaxScrape
    /\ InfoCallEffect(i)
    /\ op' = OpRec("fetch_dataset_info", "-", i.ok, None)
    /\ UNCHANGED <<CACHING, data_cache, fetches, facade, last, bound, legacyVars>>

(***************************************************************************)
(* The UIS facade (src/src/unesco_reader/uis.py)                           *)
(***************************************************************************)
\* mutant: a refresh rebinds every facade bound to the same href
BindAll(fs, f, info, data) ==
    [g \in Facades |->
        IF g = f THEN [made |-> TRUE, info |-> info, data |-> data]
        ELSE IF fs[g].made /\ fs[g].info.href = info.href
             THEN [fs[g] EXCEPT !.data = data]
             ELSE fs[g]]

\* self._dataset_info = info; self._data = data
Bind(fs, f, info, data) ==
    [fs EXCEPT ![f] = [made |-> TRUE, info |-> info, data |-> data]]

\* UIS(dataset_name): f = UIS(name), which calls fetch_dataset_info(name) and
\* fetch_data(href).  An exception leaves f as it was.
Construct(f, name, links, dout) ==
    LET i == fetch_dataset_info(info_cache, CACHING, name, FALSE, links, scrapes + 1)
        c == Call("href", i.desc.href, FALSE)
        d == fetch_data(data_cache, CACHING, c, dout, fetches + 1)
    IN
    /\ i.hit \/ scrapes < MaxScrape
    /\ InfoCallEffect(i)
    /\ IF i.ok
       THEN /\ d.hit \/ fetches < MaxFetch
            /\ DataCallEffect(c, d)
            /\ facade' = IF d.ok THEN Bind(facade, f, i.desc, d.result) ELSE facade
            /\ bound' = IF d.ok THEN [bound EXCEPT ![f] = d.result] ELSE bound
            /\ op' = OpRec("UIS", f, d.ok, None)
       ELSE /\ op' = OpRec("UIS", f, FALSE, None)
            /\ UNCHANGED <<data_cache, fetches, last, facade, bound>>
    /\ UNCHANGED <<CACHING, legacyVars>>

\* f.refresh(): fetch_dataset_info(name, refresh=True), then
\* fetch_data(href, refresh=True); the two assignments run in order, an
\* exception in the second leaves the first one done
Refresh(f, links, dout) ==
    LET i == fetch_dataset_info(info_cache, CACHING, facade[f].info.name, TRUE,
                                links, scrapes + 1)
        c == Call("href,refresh=", i.desc.href, TRUE)
        d == fetch_data(data_cache, CACHING, c, dout, fetches + 1)
    IN
    /\ facade[f].made
    /\ i.hit \/ scrapes < MaxScrape
    /\ InfoCallEffect(i)
    /\ IF i.ok
       THEN /\ d.hit \/ fetches < MaxFetch
            /\ DataCallEffect(c, d)
            /\ facade' = IF d.ok THEN Bind(facade, f, i.desc, d.result)
                         ELSE [facade EXCEPT ![f].info = i.desc]
            /\ bound' = IF d.ok THEN [bound EXCEPT ![f] = d.result] ELSE bound
            /\ op' = OpRec("refresh", f, d.ok, None)
       ELSE /\ op' = OpRec("refresh", f, FALSE, None)
            /\ UNCHANGED <<data_cache, fetches, last, facade, bound>>
    /\ UNCHANGED <<CACHING, legacyVars>>

\* the data accessors of UIS; get_country_data is called without a region, with
\* the id of a region the archive lists, or with an id it does not list
Accessors == {"get_country_data", "get_country_data(region)",
              "get_country_data(unknown region)", "get_metadata",
              "get_region_data", "get_countries", "get_regions", "get_variables",
              "readme"}

\* does the accessor raise ValueError on a UISData object whose attributes in
\* `none` are None?
AccessRaises(accessor, none) ==
    CASE accessor = "get_country_data" -> FALSE
      [] accessor = "get_country_data(region)" -> "region_concordance" \in none
      [] accessor = "get_country_data(unknown region)" -> TRUE
      [] accessor = "get_metadata" -> "metadata" \in none
      [] accessor = "get_region_data" -> "region_data" \in none
      [] accessor = "get_countries" -> "country_concordance" \in none
      [] accessor = "get_regions" -> "region_concordance" \in none
      [] accessor = "get_variables" -> "variable_concordance" \in none
      [] accessor = "readme" -> "readme" \in none

\* a data accessor called on f: it reads self._data, the UISData made from the
\* archive at the href f is bound to, and returns a view of it or raises
\* ValueError
Access(f, accessor) ==
    LET raises == AccessRaises(accessor, ArchiveLacks(facade[f].info.href)) IN
    /\ facade[f].made
    /\ op' = IF raises THEN OpRec("access", f, FALSE, None)
             ELSE OpRec("access", f, TRUE, facade[f].data)
    /\ UNCHANGED <<cacheVars, legacyVars>>

(***************************************************************************)
(* Tables (src/unesco_reader/uis.py)                                       *)
(*                                                                         *)
(* A table is the sequence of its rows, a row a record of its columns.     *)
(* The columns the pivot creates (one per TYPE) are the field `ann` of a   *)
(* row, a function from column name to cell.                               *)
(***************************************************************************)
NaN == "<NaN>"                        \* pandas' missing value

Indicators == {"IND1"}
Countries  == {"DEU", "FRA"}
Years      == {2020}
Types      == {"NOTE", "SRC"}
Texts      == {"A", "B"}

\* rows of {code}_METADATA.csv and of {code}_DATA_NATIONAL.csv
MetaRows ==
    [INDICATOR_ID : Indicators, COUNTRY_ID : Countries, YEAR : Years,
     TYPE : Types, METADATA : Texts]
ValueRows ==
    [INDICATOR_ID : Indicators, COUNTRY_ID : Countries, YEAR : Years, VALUE : {5}]

\* the tables of 1..n rows, resp. 0..n rows
TablesOf(rows, lo, n) == UNION {[1..k -> rows] : k \in lo..n}

\* {code}_LABEL.csv and {code}_COUNTRY.csv as common.mapping_dict gives them
Labels       == [x \in {"IND1"} |-> "Literacy"]
CountryNames == [x \in {"FRA"} |-> "France"]

\* the archives with all four members and a text in every METADATA row;
\* `lacks` names the members an archive does not hold
Archives(nmeta, nvalues) ==
    [values : TablesOf(ValueRows, 0, nvalues),
     metadata : TablesOf(MetaRows, 1, nmeta),
     labels : {Labels}, countries : {CountryNames}, lacks : {{}}]

\* archives transform_data raises on: one without its METADATA member, one
\* with a METADATA row whose text is missing
BrokenArchives ==
    {[values |-> << >>, metadata |-> << >>, labels |-> Labels,
      countries |-> CountryNames, lacks |-> {"METADATA"}],
     [values |-> << >>,
      metadata |-> <<[INDICATOR_ID |-> "IND1", COUNTRY_ID |-> "FRA", YEAR |-> 2020,
                      TYPE |-> "NOTE", METADATA |-> NaN]>>,
      labels |-> Labels, countries |-> CountryNames, lacks |-> {}]}

\* the order pandas sorts strings in
StrOrder == <<"A", "B", "DEU", "FRA", "IND1", "NOTE", "SRC">>
Rank(x) == CHOOSE i \in DOMAIN StrOrder : StrOrder[i] = x

Key3(r) == <<r.INDICATOR_ID, r.COUNTRY_ID, r.YEAR>>
Key4(r) == <<r.INDICATOR_ID, r.COUNTRY_ID, r.YEAR, r.TYPE>>

Less3(a, b) ==
    \/ Rank(a[1]) < Rank(b[1])
    \/ a[1] = b[1] /\ Rank(a[2]) < Rank(b[2])
    \/ a[1] = b[1] /\ a[2] = b[2] /\ a[3] < b[3]
Less4(a, b) ==
    \/ Less3(a, b)
    \/ a[1] = b[1] /\ a[2] = b[2] /\ a[3] = b[3] /\ Rank(a[4]) < Rank(b[4])

RECURSIVE Sort3(_)
Sort3(S) ==
    IF S = {} THEN << >>
    ELSE LET m == CHOOSE x \in S : \A y \in S \ {x} : Less3(x, y)
         IN <<m>> \o Sort3(S \ {m})
RECURSIVE Sort4(_)
Sort4(S) ==
    IF S = {} THEN << >>
    ELSE LET m == CHOOSE x \in S : \A y \in S \ {x} : Less4(x, y)
         IN <<m>> \o Sort4(S \ {m})

\* ' / '.join(texts)
RECURSIVE join(_)
join(texts) ==
    IF Len(texts) = 1 THEN texts[1]
    ELSE texts[1] \o " / " \o join(Tail(texts))

\* mutant: a group keeps its first row only
group_first(df, k) ==
    LET g == SelectSeq(df, LAMBDA r : Key4(r) = k) IN <<g[1].METADATA>>

\* the METADATA column of one group of the groupby: the rows with key k, in
\* the order they have in df
group(df, k) ==
    LET g == SelectSeq(df, LAMBDA r : Key4(r) = k)
    IN [i \in 1..Len(g) |-> g[i].METADATA]

\* df.groupby(by=[INDICATOR_ID, COUNTRY_ID, YEAR, TYPE], as_index=False)
\*   ['METADATA'].apply(' / '.join): one row per key, keys sorted
groupby_join(df) ==
    LET ks == Sort4({Key4(df[i]) : i \in 1..Len(df)})
    IN [i \in 1..Len(ks) |->
          [INDICATOR_ID |-> ks[i][1], COUNTRY_ID |-> ks[i][2], YEAR |-> ks[i][3],
           TYPE |-> ks[i][4], METADATA |-> join(group(df, ks[i]))]]

\* mutant: no pivot, one row per (key, TYPE) with the other columns missing
pivot_long(g) ==
    LET cols == {g[i].TYPE : i \in 1..Len(g)}
    IN [i \in 1..Len(g) |->
          [INDICATOR_ID |-> g[i].INDICATOR_ID, COUNTRY_ID |-> g[i].COUNTRY_ID,
           YEAR |-> g[i].YEAR,
           ann |-> [t \in cols |-> IF t = g[i].TYPE THEN g[i].METADATA ELSE NaN]]]

\* .pivot(index=[INDICATOR_ID, COUNTRY_ID, YEAR], columns='TYPE',
\*        values='METADATA').reset_index().rename_axis(None, axis=1)
pivot(g) ==
    LET idx  == Sort3({Key3(g[i]) : i \in 1..Len(g)})
        cols == {g[i].TYPE : i \in 1..Len(g)}
        cell(k, t) ==
            IF \E j \in 1..Len(g) : Key3(g[j]) = k /\ g[j].TYPE = t
            THEN g[CHOOSE j \in 1..Len(g) : Key3(g[j]) = k /\ g[j].TYPE = t].METADATA
            ELSE NaN
    IN [i \in 1..Len(idx) |->
          [INDICATOR_ID |-> idx[i][1], COUNTRY_ID |-> idx[i][2], YEAR |-> idx[i][3],
           ann |-> [t \in cols |-> cell(idx[i], t)]]]

format_metadata(metadata_df) == pivot(groupby_join(metadata_df))

\* Series.map(dict): the name of a code, missing when the dict has none
map(id, dict) == IF id \in DOMAIN dict THEN dict[id] ELSE NaN

\* .assign(COUNTRY_NAME=..., INDICATOR_NAME=...)
assign(df, countries, labels) ==
    [i \in 1..Len(df) |->
        [INDICATOR_ID |-> df[i].INDICATOR_ID, COUNTRY_ID |-> df[i].COUNTRY_ID,
         YEAR |-> df[i].YEAR, VALUE |-> df[i].VALUE,
         COUNTRY_NAME |-> map(df[i].COUNTRY_ID, countries),
         INDICATOR_NAME |-> map(df[i].INDICATOR_ID, labels)]]

\* one row of the merge result: the left row with the pivoted columns
Joined(l, ann) ==
    [INDICATOR_ID |-> l.INDICATOR_ID, COUNTRY_ID |-> l.COUNTRY_ID, YEAR |-> l.YEAR,
     VALUE |-> l.VALUE, COUNTRY_NAME |-> l.COUNTRY_NAME,
     INDICATOR_NAME |-> l.INDICATOR_NAME, ann |-> ann]

\* left.merge(right, on=[INDICATOR_ID, COUNTRY_ID, YEAR], how='left'): every
\* left row once per right row with its key, once with missing cells if none
RECURSIVE merge(_, _)
merge(left, right) ==
    IF left = << >> THEN << >>
    ELSE LET l == Head(left)
             m == SelectSeq(right, LAMBDA r : Key3(r) = Key3(l))
             cols == UNION {DOMAIN right[j].ann : j \in 1..Len(right)}
             out == IF m = << >>
                    THEN <<Joined(l, [t \in cols |-> NaN])>>
                    ELSE [j \in 1..Len(m) |-> Joined(l, m[j].ann)]
         IN out \o merge(Tail(left), right)

\* does transform_data raise?  common.read_csv raises KeyError for a member
\* the archive does not hold, ' / '.join raises TypeError for a missing text
raises(folder) ==
    \/ folder.lacks # {}
    \/ \E i \in 1..Len(folder.metadata) : folder.metadata[i].METADATA = NaN

\* transform_data(folder, dataset_code): the local `metadata` and the result,
\* or an exception (ok = FALSE)
transform_data(folder) ==
    IF raises(folder)
    THEN [ok |-> FALSE, metadata |-> << >>, result |-> << >>]
    ELSE LET md == format_metadata(folder.metadata)
         IN [ok |-> TRUE, metadata |-> md,
             result |-> merge(assign(folder.values, folder.countries,
                                     folder.labels), md)]

\* transform_data called directly on the archive
CallTransformData ==
    LET t == transform_data(remote) IN
    /\ op.name # "transform_data"
    /\ metadata' = t.metadata
    /\ returned' = t.result
    /\ op' = OpRec("transform_data", "-", t.ok, None)
    /\ UNCHANGED <<cacheVars, remote, uis, unzips>>

(***************************************************************************)
(* The earlier UIS facade (src/unesco_reader/uis.py)                       *)
(***************************************************************************)
\* the static catalogue uis_datasets.csv
DATASETS == {[dataset_name |-> "Education", dataset_code |-> "EDU"]}
DatasetArgs == {"Education", "EDU", "unknown"}

\* map_dataset_name(name): the code, or "" for ValueError
map_dataset_name(name) ==
    IF \E d \in DATASETS : d.dataset_name = name
    THEN (CHOOSE d \in DATASETS : d.dataset_name = name).dataset_code
    ELSE IF \E d \in DATASETS : d.dataset_code = name
         THEN name
         ELSE ""

\* mutant: the constructor binds an (empty) dataset at once
init_loaded(code) ==
    [made |-> TRUE, code |-> code, folder |-> NoFolder, data |-> [rows |-> << >>]]

\* __init__: self.__folder = None; self.__data = None
init(code) ==
    [made |-> TRUE, code |-> code, folder |-> NoFolder, data |-> NoneData]

\* UIS(dataset).  ValueError leaves the caller's variable as it was.
LegacyUIS(dataset) ==
    LET code == map_dataset_name(dataset) IN
    /\ uis' = IF code = "" THEN uis ELSE init(code)
    /\ op' = OpRec("UIS", "-", code # "", NoneData)
    /\ UNCHANGED <<cacheVars, remote, unzips, metadata, returned>>

\* load_data(): unzip_folder returns the archive or raises; __folder is
\* assigned before transform_data runs, __data only when it returns
load_data(outcome) ==
    LET t == transform_data(remote) IN
    /\ uis.made
    /\ unzips < MaxUnzip
    /\ unzips' = unzips + 1
    /\ IF outcome = "ok"
       THEN /\ uis' = [uis EXCEPT !.folder = remote,
                                  !.data = IF t.ok THEN [rows |-> t.result] ELSE @]
            /\ metadata' = t.metadata
            /\ returned' = t.result
       ELSE UNCHANGED <<uis, metadata, returned>>
    /\ op' = OpRec("load_data", "-", outcome = "ok" /\ t.ok, NoneData)
    /\ UNCHANGED <<cacheVars, remote>>

\* get_data(): return self.__data
get_data ==
    /\ uis.made
    /\ op' = OpRec("get_data", "-", TRUE, uis.data)
    /\ UNCHANGED <<cacheVars, legacyVars>>

(***************************************************************************)
(* Specifications                                                          *)
(***************************************************************************)
\* The outcomes get_zipfile / get_links can have in a call with this key: a
\* call answered from the cache does not run them, so there is nothing to choose.
ZipOutcomes(call) ==
    IF KeyIndex(data_cache, make_key(call)) # 0 THEN {"ok"} ELSE Outcomes
LinkOutcomes(call) ==
    IF KeyIndex(info_cache, make_key(call)) # 0
    THEN {[ok |-> TRUE, names |-> Names]}
    ELSE Links
InfoLinkOutcomes(call) ==
    IF KeyIndex(info_cache, make_key(call)) # 0
    THEN {[ok |-> TRUE, names |-> Names]}
    ELSE InfoLinks

\* fetch_data called directly
Next ==
    \/ \E c \in DataCalls(SpecDataForms, Hrefs) : \E o \in ZipOutcomes(c) :
          CallFetchData(c, o)
    \/ \E b \in BOOLEAN : SetCaching(b)

Spec == Init /\ [][Next]_vars

\* fetch_info (in every form), info and fetch_dataset_info called directly,
\* next to fetch_data(href) for the hrefs of Probes
NextInfo ==
    \/ \E c \in InfoCalls(InfoForms) : \E l \in InfoLinkOutcomes(c) :
          CallFetchInfo(c, l)
    \/ \E rf \in BOOLEAN : \E l \in InfoLinkOutcomes(Call("refresh", None, rf)) :
          CallInfo(rf, l)
    \/ \E n \in Names, rf \in BOOLEAN :
          \E l \in InfoLinkOutcomes(Call("refresh", None, rf)) :
             CallFetchDatasetInfo(n, rf, l)
    \/ \E c \in DataCalls({"href"}, Probes) : \E o \in ZipOutcomes(c) :
          CallFetchData(c, o)
    \/ \E b \in BOOLEAN : SetCaching(b)

SpecInfo == Init /\ [][NextInfo]_vars

\* the UIS objects
NextFacade ==
    \/ \E f \in Facades, n \in Names :
          \E l \in LinkOutcomes(Call("refresh", None, FALSE)),
             o \in ZipOutcomes(Call("href", Href(n), FALSE)) :
             Construct(f, n, l, o)
    \/ \E f \in Facades :
          \E l \in LinkOutcomes(Call("refresh", None, TRUE)),
             o \in ZipOutcomes(Call("href,refresh=", Href(facade[f].info.name), TRUE)) :
             Refresh(f, l, o)
    \/ \E f \in Facades, a \in Accessors : Access(f, a)
    \/ \E b \in BOOLEAN : SetCaching(b)

SpecFacade == Init /\ [][NextFacade]_vars

\* fetch_data(href) only, over many hrefs: each call asks for a href of Probes
\* or for a href never asked for before (numbered by the retrieval it causes)
LruGet(h) ==
    /\ h \in Probes \/ h = fetches + 1
    /\ FetchDataStep(Call("href", h, FALSE), "ok", NumLocs)

NextLRU == \E h \in 1..NumLocs : LruGet(h)

SpecLRU == Init /\ [][NextLRU]_vars

\* transform_data applied to every archive within the bounds and to the
\* broken ones
InitReshape ==
    /\ CACHING = TRUE /\ data_cache = << >> /\ info_cache = << >>
    /\ fetches = 0 /\ scrapes = 0
    /\ facade = [f \in Facades |-> [made |-> FALSE, info |-> NoDesc, data |-> None]]
    /\ op = OpRec("start", "-", TRUE, None)
    /\ last = NoCall
    /\ bound = [f \in Facades |-> None]
    /\ remote \in Archives(MaxMeta, MaxValues) \cup BrokenArchives
    /\ uis = NoUIS /\ unzips = 0 /\ metadata = << >> /\ returned = << >>

NextReshape == CallTransformData

SpecReshape == InitReshape /\ [][NextReshape]_vars

\* the earlier facade over every archive within the bounds and the broken ones
InitLegacy ==
    /\ CACHING = TRUE /\ data_cache = << >> /\ info_cache = << >>
    /\ fetches = 0 /\ scrapes = 0
    /\ facade = [f \in Facades |-> [made |-> FALSE, info |-> NoDesc, data |-> None]]
    /\ op = OpRec("start", "-", TRUE, NoneData)
    /\ last = NoCall
    /\ bound = [f \in Facades |-> None]
    /\ remote \in Archives(MaxSample, MaxSample) \cup BrokenArchives
    /\ uis = NoUIS /\ unzips = 0 /\ metadata = << >> /\ returned = << >>

NextLegacy ==
    \/ \E d \in DatasetArgs : LegacyUIS(d)
    \/ \E o \in Outcomes : load_data(o)
    \/ get_data

SpecLegacy == InitLegacy /\ [][NextLegacy]_vars

(***************************************************************************)
(* Claims about the cache (Spec, SpecLRU)                                  *)
(***************************************************************************)
\* C1: a fetch_data(href) call that directly follows a fetch_data(href) call
\* for the same href which returned (no other fetch_data call in between)
\* does not invoke get_zipfile and returns the identical object; so does any
\* other call without refresh that repeats the call before it as written.
C1_RepeatedGetIsHit ==
    (last.after = "get" /\ ~last.refresh /\ ~last.respelt)
       => (last.hit /\ last.same)

\* a second consecutive fetch_data(href) has been served from the cache
C1_Witness ==
    /\ last.form = "href" /\ last.after = "get" /\ ~last.respelt
    /\ last.hit /\ last.same /\ last.result # None

\* C2 (as claimed): with caching enabled, every fetch_data(href, refresh=True)
\* call invokes get_zipfile, i.e. is never answered from the cache.
C2_RefreshAlwaysFetches ==
    (CACHING /\ last.refresh /\ last.href # None) => ~last.hit

\* C4 (as claimed): with caching enabled, a fetch_data(href, refresh=True)
\* call that fails leaves every entry of the cache in place.
C4_FailedRefreshKeepsCache ==
    [][(CACHING /\ op'.name = "fetch_data" /\ last'.refresh /\ ~last'.ok)
          => data_cache' = data_cache]_vars

\* C10 (as claimed): with caching enabled, a fetch_data(href) call that
\* directly follows a successful fetch_data(href, refresh=True) for the same
\* href is a cache hit returning the refreshed object.
C10_GetAfterRefreshIsHit ==
    (CACHING /\ last.after = "refresh" /\ ~last.refresh)
       => (last.hit /\ last.same)

\* C6 (as claimed): with fetch_data(href) calls only, no cache entry is ever
\* evicted: every key cached before a step is cached after it.
C6_NeverEvicts ==
    [][\A i \in 1..Len(data_cache) :
          KeyIndex(data_cache', data_cache[i].key) # 0]_vars

\* C6 (amended): the cache holds at most MaxSize = 128 entries; with
\* fetch_data(href) calls only, no entry is evicted while fewer than 128 are
\* cached, and a step evicts at most the least recently used entry.
C6_BoundedLRU ==
    [][/\ Len(data_cache') <= MaxSize
       /\ Len(data_cache) < MaxSize =>
             \A i \in 1..Len(data_cache) :
                KeyIndex(data_cache', data_cache[i].key) # 0
       /\ \A i \in 2..Len(data_cache) :
             KeyIndex(data_cache', data_cache[i].key) # 0]_vars

\* more retrievals have been stored than the cache holds: one was evicted
C6_Witness ==
    Len(data_cache) = MaxSize /\ fetches > MaxSize /\ KeyIndex(data_cache, make_key(Call("href", 1, FALSE))) = 0

\* C11 (as claimed): with caching enabled, a fetch_data(A, refresh=True) call
\* that returns leaves the cached entry of every other href as it was.
C11_RefreshKeepsOtherKeys ==
    (CACHING /\ last.refresh /\ last.ok)
       => Others(data_cache, last.href) = last.others

\* C11 (amended): a fetch_data(A, refresh=True) call that runs the retrieval
\* clears the whole cache: afterwards the cache holds A's refreshed result
\* under the key of that call and nothing else (nothing at all when the
\* retrieval raised), so the entries of every other href are gone; a refresh
\* call answered from the cache leaves the entries of the other hrefs as
\* they were.
C11_RefreshClearsWholeCache ==
    (last.refresh /\ last.href # None) =>
       IF last.hit
       THEN Others(data_cache, last.href) = last.others
       ELSE /\ Others(data_cache, last.href) = {}
            /\ data_cache = IF last.ok
                            THEN <<[key |-> make_key(Call(last.form, last.href, TRUE)),
                                   val |-> last.result]>>
                            ELSE << >>

\* a refresh of one href ran the retrieval while another href was cached
C11_Witness ==
    /\ last.refresh /\ ~last.hit /\ last.ok /\ CACHING
    /\ last.others # {}
    /\ Len(data_cache) = 1

\* C12 (as claimed): while CACHING is False every call of fetch_data and of
\* fetch_info performs a new retrieval (get_zipfile / UISInfoScraper.get_links),
\* repeated calls with identical arguments included.
C12_NoCachingAlwaysRetrieves ==
    [][~CACHING =>
          /\ (op'.name = "fetch_data" => fetches' = fetches + 1)
          /\ (op'.name \in {"fetch_info", "info", "fetch_dataset_info"}
                 => scrapes' = scrapes + 1)]_vars

(***************************************************************************)
(* Claims about the UIS facade (SpecFacade)                                *)
(***************************************************************************)
\* C3 (as claimed): a refresh() that fails leaves _dataset_info and _data of
\* the facade exactly as they were.
C3_RefreshAllOrNothing ==
    [][(CACHING /\ op'.name = "refresh" /\ ~op'.ok)
          => facade'[op'.f] = facade[op'.f]]_vars

\* C5 (as claimed): when the latest fetch_data call is a successful refresh
\* of the href a facade is bound to, a data access on that facade that
\* returns is served from the refreshed object.
C5_AccessSeesRefresh ==
    (CACHING /\ op.name = "access" /\ op.ok /\ last.refresh /\ last.ok
        /\ last.href = facade[op.f].info.href)
       => op.served = last.result

\* C5 (amended): a data access on a facade that returns is served from the
\* object that facade's own constructor or own latest successful refresh()
\* received; a refresh() of another facade does not change it.
C5_AccessServesOwnBinding ==
    (op.name = "access" /\ op.ok) => op.served = bound[op.f]

\* a facade is accessed after another facade on the same href was refreshed,
\* and serves its old object
C5_Witness ==
    /\ op.name = "access" /\ op.ok /\ last.refresh /\ last.ok
    /\ last.href = facade[op.f].info.href
    /\ op.served # last.result
    /\ \E g \in Facades \ {op.f} : facade[g].made /\ facade[g].data = last.result

(***************************************************************************)
(* Claims about format_metadata and transform_data (SpecReshape)           *)
(***************************************************************************)
\* C7: the table transform_data returns has exactly as many rows as the
\* DATA_NATIONAL table, whatever the METADATA table.
C7_MergeKeepsRowCount ==
    (op.name = "transform_data" /\ op.ok) => Len(returned) = Len(remote.values)

\* two value rows were merged with metadata holding two texts of one key and
\* two annotation types for one observation
C7_Witness ==
    /\ op.name = "transform_data" /\ op.ok
    /\ Len(remote.values) = 2 /\ Len(returned) = 2
    /\ \E j \in 1..Len(metadata) :
          /\ DOMAIN metadata[j].ann = Types
          /\ metadata[j].ann["NOTE"] = "A / B"
          /\ metadata[j].ann["SRC"] # NaN
          /\ \E i \in 1..Len(returned) : returned[i].ann = metadata[j].ann

\* the texts of the first n rows of df with key k, joined left to right in
\* row order; NaN when there is none
RECURSIVE TextsInOrder(_, _, _)
TextsInOrder(df, k, n) ==
    IF n = 0 THEN NaN
    ELSE LET e == TextsInOrder(df, k, n - 1) IN
         IF Key4(df[n]) # k THEN e
         ELSE IF e = NaN THEN df[n].METADATA
              ELSE e \o " / " \o df[n].METADATA

\* C8: format_metadata returns one row per distinct (INDICATOR_ID, COUNTRY_ID,
\* YEAR), and its cell for a key and TYPE is the texts of all input rows with
\* that key and TYPE joined by " / " in input row order.
C8_ReshapeConcatenatesInOrder ==
    (op.name = "transform_data" /\ op.ok) =>
       LET df == remote.metadata IN
       /\ Len(metadata) = Cardinality({Key3(df[i]) : i \in 1..Len(df)})
       /\ \A i \in 1..Len(df) :
             \E j \in 1..Len(metadata) :
                /\ Key3(metadata[j]) = Key3(df[i])
                /\ df[i].TYPE \in DOMAIN metadata[j].ann
                /\ metadata[j].ann[df[i].TYPE]
                      = TextsInOrder(df, Key4(df[i]), Len(df))

\* texts "A" then "B" of one key were reshaped (next to a second observation)
C8_Witness ==
    /\ op.name = "transform_data" /\ op.ok
    /\ Len(metadata) = 2
    /\ \E i, k \in 1..Len(remote.metadata) :
          /\ i < k /\ Key4(remote.metadata[i]) = Key4(remote.metadata[k])
          /\ remote.metadata[i].METADATA = "A" /\ remote.metadata[k].METADATA = "B"
    /\ \E j \in 1..Len(metadata) :
          \E t \in DOMAIN metadata[j].ann : metadata[j].ann[t] = "A / B"

(***************************************************************************)
(* Claims about the earlier UIS facade (SpecLegacy)                        *)
(***************************************************************************)
\* C9 (as claimed): a data access on the facade returns the loaded dataset,
\* never None.
C9_AccessReturnsDataset ==
    op.name = "get_data" => op.served # NoneData

\* C9 (amended): UIS(dataset) does not invoke the archive accessor and leaves
\* the facade not loaded; get_data() never invokes it either and returns what
\* is bound, None included; only load_data() invokes the accessor, and only a
\* load_data() that returns binds a dataset.
C9_LoadOnlyOnLoadData ==
    [][/\ op'.name = "UIS" =>
             unzips' = unzips /\ (op'.ok => uis'.data = NoneData)
       /\ op'.name = "get_data" =>
             unzips' = unzips /\ uis' = uis /\ op'.served = uis.data
       /\ unzips' # unzips => op'.name = "load_data"
       /\ (uis'.data # uis.data /\ uis'.data # NoneData) =>
             op'.name = "load_data" /\ op'.ok]_vars

\* get_data() was called on a constructed facade before any load_data()
C9_Witness ==
    op.name = "get_data" /\ uis.made /\ unzips = 0 /\ op.served = NoneData
====
